---- MODULE Spec2Model ----
(***************************************************************************)
(* A model of bin/analyze_challenge.py: the challenge-set analysis script  *)
(* that reads the reference archive, the two generation-run trees and the  *)
(* reference-energy table, and produces per-formula rows, four pairs of    *)
(* counters and the consolidated results.csv.                              *)
(*                                                                         *)
(* Modelling conventions                                                   *)
(*   - A Python float is an integer code: NaN and Inf are the two special  *)
(*     codes below, and float comparison is FloatLT (false when either     *)
(*     side is NaN).  validity_rate is held in percent.                    *)
(*   - A call that can raise returns a record [exc, val]; exc = NoExc      *)
(*     means a normal return.                                              *)
(*   - A csv file is [exists, rows]; an existing file always has its       *)
(*     header line, rows are the data lines after it.                      *)
(*   - A formula is the sequence of its character codes, so that sorted()  *)
(*     is a real lexicographic sort.                                       *)
(*   - Structure.from_str is deterministic in the text: it raises exactly  *)
(*     on the texts in UnparsableTexts.  StructureMatcher.fit is outside   *)
(*     the repository; its outcome is chosen by the environment.           *)
(***************************************************************************)
EXTENDS Integers, Sequences, FiniteSets, TLC

VARIABLES
    \* ---- inputs on disk (never written by the script) ----
    archive,            \* ChallengeSet-v1.zip: the sequence input_zip.filelist
    energies_csv,       \* ChallengeSet-v1.alignn_energies.csv: its data rows
    run,                \* run[v]: the tree of cif_model_35_challenge (v=0) / _sg (v=1)
    \* ---- program state of __main__ ----
    pc,                 \* position in __main__
    exc,                \* the unhandled exception that ended the run, or NoExc
    challenge_set,      \* dict formula -> true cif text
    training_set_formulas,
    alignn_energies,    \* dict formula -> energy
    order,              \* sorted(challenge_set)
    i,                  \* index into order of the formula being processed
    cur,                \* locals of the loop body: validity_rate, min_E, ...
    validity_count,
    valid_on_first_count,
    match_true_count_all,
    match_true_count_unseen,
    rows,               \* the list appended to at lines 265 and 296
    out_dirs,           \* directories made under out_dir
    out_files           \* files written under out_dir, <<formula, fname>> (formula = Root for out_dir itself)

vars == <<archive, energies_csv, run, pc, exc, challenge_set, training_set_formulas,
          alignn_energies, order, i, cur, validity_count, valid_on_first_count,
          match_true_count_all, match_true_count_unseen, rows, out_dirs, out_files>>

inputs == <<archive, energies_csv, run>>

(***************************************************************************)
(* Values                                                                  *)
(***************************************************************************)
NaN == -1
Inf == 1000
None == "None"
\* an exception is its type and the function whose frame raised it
Exc(type, fn) == [type |-> type, in |-> fn]
NoExc == Exc("none", "none")

Variants == {0, 1}

\* float a < float b
FloatLT(a, b) == a # NaN /\ b # NaN /\ a < b

Li2O == <<1>>
LiF  == <<1, 3>>
NaCl == <<2, 1>>
Root == <<>>
AllFormulas == {Li2O, LiF, NaCl}

\* Python str < str: lexicographic on code points, a proper prefix is smaller
RECURSIVE StrLT(_, _)
StrLT(s, t) ==
    IF t = <<>> THEN FALSE
    ELSE IF s = <<>> THEN TRUE
    ELSE IF Head(s) # Head(t) THEN Head(s) < Head(t)
    ELSE StrLT(Tail(s), Tail(t))

\* insert x into the ascending sequence s
RECURSIVE Insert(_, _)
Insert(x, s) ==
    IF s = <<>> THEN <<x>>
    ELSE IF StrLT(x, Head(s)) THEN <<x>> \o s
    ELSE <<Head(s)>> \o Insert(x, Tail(s))

RECURSIVE InsertionSort(_)
InsertionSort(s) == IF s = <<>> THEN <<>> ELSE Insert(Head(s), InsertionSort(Tail(s)))

\* the keys of a dict in insertion order, given the sequence of insertions
RECURSIVE KeysInOrder(_, _)
KeysInOrder(ins, seen) ==
    IF ins = <<>> THEN <<>>
    ELSE IF Head(ins) \in seen THEN KeysInOrder(Tail(ins), seen)
    ELSE <<Head(ins)>> \o KeysInOrder(Tail(ins), seen \cup {Head(ins)})

\* iterating a dict yields its keys in insertion order (no sort)
UnsortedKeys(d, ins) == KeysInOrder(ins, {})

\* sorted(challenge_set): d is the dict, ins the order its keys were inserted in
sorted(d, ins) == InsertionSort(KeysInOrder(ins, {}))

(***************************************************************************)
(* read_challenge_set                                                      *)
(***************************************************************************)
\* An archive entry is [n, formula, fname, text, rows]: n = len(components),
\* formula = components[1], fname = components[-1], text the file content,
\* rows the (formula, source) data lines when the entry is a metadata.csv.
\* fname.endswith("pymatgen.cif")
CanonicalSuffix(fname) == fname \in {"pymatgen.cif", "NaCl_pymatgen.cif"}

RECURSIVE ZipTraining(_)
ZipTraining(z) ==
    IF z = <<>> THEN {}
    ELSE ZipTraining(Tail(z)) \cup
         (IF Head(z).fname = "metadata.csv"
          THEN {Head(z).rows[k][1] : k \in {j \in 1..Len(Head(z).rows) :
                                            Head(z).rows[j][2] = "training set"}}
          ELSE {})

\* the entries that reach line 46, in archive order
RECURSIVE ZipStructures(_)
ZipStructures(z) ==
    IF z = <<>> THEN <<>>
    ELSE LET e == Head(z) IN
         IF e.fname = "metadata.csv" THEN ZipStructures(Tail(z))
         ELSE IF e.n < 3 \/ e.fname = "" THEN ZipStructures(Tail(z))
         ELSE IF CanonicalSuffix(e.fname) THEN <<e>> \o ZipStructures(Tail(z))
         ELSE ZipStructures(Tail(z))

\* the dict built by the assignments of line 46: the last one for a key wins
DictOf(es) ==
    [f \in {es[k].formula : k \in 1..Len(es)} |->
        es[CHOOSE k \in 1..Len(es) :
              es[k].formula = f /\ \A j \in (k+1)..Len(es) : es[j].formula # f].text]

read_challenge_set(z) ==
    [challenge_set |-> DictOf(ZipStructures(z)),
     inserted |-> [k \in 1..Len(ZipStructures(z)) |-> ZipStructures(z)[k].formula],
     training_set_formulas |-> ZipTraining(z)]

(***************************************************************************)
(* read_alignn_energies                                                    *)
(***************************************************************************)
read_alignn_energies(tbl) ==
    [f \in {tbl[k][1] : k \in 1..Len(tbl)} |->
        tbl[CHOOSE k \in 1..Len(tbl) :
               tbl[k][1] = f /\ \A j \in (k+1)..Len(tbl) : tbl[j][1] # f][2]]

\* alignn_energies[formula], line 249
EnergyLookupDefault(energies, formula) ==
    IF formula \in DOMAIN energies THEN [exc |-> NoExc, val |-> energies[formula]]
    ELSE [exc |-> NoExc, val |-> NaN]

EnergyLookup(energies, formula) ==
    IF formula \in DOMAIN energies THEN [exc |-> NoExc, val |-> energies[formula]]
    ELSE [exc |-> Exc("KeyError", "__main__"), val |-> NaN]

(***************************************************************************)
(* The run tree of one variant:                                            *)
(*   [summary |-> csv of <<formula, validity_rate, mean_E, min_E>>,        *)
(*    cand    |-> [formula |-> csv of <<fname, iteration, score>>],        *)
(*    files   |-> [formula |-> [fname |-> text or Absent]]]                *)
(***************************************************************************)
Absent == "absent"
\* the candidate files of a directory are named by their number: 1 is "1.cif", ...
MaxCandRows == 3
CandNames == 1..MaxCandRows
\* best_cif_fname = None
NoName == 0

\* the loop of lines 58-63 over the rows from position k on
RECURSIVE BestFrom(_, _, _, _)
BestFrom(tbl, k, best_score, best_cif_fname) ==
    IF k > Len(tbl) THEN best_cif_fname
    ELSE IF FloatLT(tbl[k][3], best_score)
         THEN BestFrom(tbl, k + 1, tbl[k][3], tbl[k][1])
         ELSE BestFrom(tbl, k + 1, best_score, best_cif_fname)

\* the same loop with <= for <: a later row of equal score replaces the best
RECURSIVE BestFromLE(_, _, _, _)
BestFromLE(tbl, k, best_score, best_cif_fname) ==
    IF k > Len(tbl) THEN best_cif_fname
    ELSE IF FloatLT(tbl[k][3], best_score) \/ (tbl[k][3] = best_score /\ tbl[k][3] # NaN)
         THEN BestFromLE(tbl, k + 1, tbl[k][3], tbl[k][1])
         ELSE BestFromLE(tbl, k + 1, best_score, best_cif_fname)

BestRowLastWins(tbl) == BestFromLE(tbl, 1, Inf, NoName)

\* lines 53-63: the file name left in best_cif_fname
BestRow(tbl) == BestFrom(tbl, 1, Inf, NoName)

get_best_cif(tree, formula) ==
    IF ~tree.cand[formula].exists THEN [exc |-> Exc("FileNotFoundError", "get_best_cif"), val |-> None]
    ELSE LET best_cif_fname == BestRow(tree.cand[formula].rows) IN
         IF best_cif_fname = NoName THEN [exc |-> Exc("TypeError", "get_best_cif"), val |-> None]
         ELSE IF tree.files[formula][best_cif_fname] = Absent
              THEN [exc |-> Exc("FileNotFoundError", "get_best_cif"), val |-> None]
              ELSE [exc |-> NoExc, val |-> tree.files[formula][best_cif_fname]]

\* line 82
BestCifOfRowNoGuard(tree, line) == get_best_cif(tree, line[1])

BestCifOfRow(tree, line) ==
    IF FloatLT(0, line[2]) THEN get_best_cif(tree, line[1])
    ELSE [exc |-> NoExc, val |-> None]

\* lines 77-88 from row k on: the first exception met, or the dict
RECURSIVE ScanSummary(_, _, _)
ScanSummary(tree, k, results) ==
    IF k > Len(tree.summary.rows) THEN [exc |-> NoExc, val |-> results]
    ELSE LET line == tree.summary.rows[k]
             b == BestCifOfRow(tree, line)
         IN IF b.exc # NoExc THEN [exc |-> b.exc, val |-> results]
            ELSE ScanSummary(tree, k + 1,
                    [f \in DOMAIN results \cup {line[1]} |->
                        IF f = line[1]
                        THEN [validity_rate |-> line[2], mean_E |-> line[3],
                              min_E |-> line[4], best_cif |-> b.val]
                        ELSE results[f]])

EmptyDict == [f \in {} |-> 0]

read_results_csv(tree) ==
    IF ~tree.summary.exists THEN [exc |-> Exc("FileNotFoundError", "read_results_csv"), val |-> EmptyDict]
    ELSE ScanSummary(tree, 1, EmptyDict)

Degraded == [validity_rate |-> 0, min_E |-> NaN, mean_E |-> NaN, best_cif |-> None]

read_props(tree, formula) ==
    LET r == read_results_csv(tree) IN
    IF r.exc # NoExc THEN [exc |-> r.exc, val |-> Degraded]
    ELSE IF formula \in DOMAIN r.val
         THEN [exc |-> NoExc,
               val |-> [validity_rate |-> r.val[formula].validity_rate,
                        min_E |-> r.val[formula].min_E,
                        mean_E |-> r.val[formula].mean_E,
                        best_cif |-> r.val[formula].best_cif]]
         ELSE [exc |-> NoExc, val |-> Degraded]

is_valid_on_first(tree, formula) ==
    IF ~tree.cand[formula].exists THEN [exc |-> NoExc, val |-> FALSE]
    ELSE IF tree.cand[formula].rows = <<>> THEN [exc |-> Exc("StopIteration", "is_valid_on_first"), val |-> FALSE]
    ELSE [exc |-> NoExc, val |-> (tree.cand[formula].rows[1][2] = 1)]

(***************************************************************************)
(* matches_true                                                            *)
(***************************************************************************)
Garbage == "garbage"
UnparsableTexts == {Garbage}
FitOutcomes == {"match", "nomatch", "raise"}

\* Structure.from_str(text, fmt="cif")
ParseOk(text) == text \notin UnparsableTexts

\* matches_true without the early return of lines 128-129
matches_true_NoNoneCheck(true_cif, best_cif, fit) ==
    IF ~ParseOk(true_cif) THEN [exc |-> Exc("ParseError", "matches_true"), val |-> FALSE]
    ELSE IF best_cif # None /\ ~ParseOk(best_cif) THEN [exc |-> Exc("ParseError", "matches_true"), val |-> FALSE]
    ELSE IF fit = "raise" THEN [exc |-> NoExc, val |-> FALSE]
    ELSE [exc |-> NoExc, val |-> (fit = "match")]

\* fit: what struct_matcher.fit does on the two parsed structures
matches_true(true_cif, best_cif, fit) ==
    IF best_cif = None THEN [exc |-> NoExc, val |-> FALSE]
    ELSE IF ~ParseOk(true_cif) THEN [exc |-> Exc("ParseError", "matches_true"), val |-> FALSE]
    ELSE IF ~ParseOk(best_cif) THEN [exc |-> Exc("ParseError", "matches_true"), val |-> FALSE]
    ELSE IF fit = "raise" THEN [exc |-> NoExc, val |-> FALSE]
    ELSE [exc |-> NoExc, val |-> (fit = "match")]

(***************************************************************************)
(* The counters of lines 277-284 and 308-315                               *)
(***************************************************************************)
\* every variant counted in slot 0
CountIfSlot0(count, v, cond) == IF cond THEN [count EXCEPT ![0] = @ + 1] ELSE count

\* if cond: count[v] += 1
CountIf(count, v, cond) == IF cond THEN [count EXCEPT ![v] = @ + 1] ELSE count

\* the unseen counter taken out of the "if is_match" block
CountUnseenNotNested(count, v, is_match, seen) == CountIf(count, v, ~seen)

\* lines 281-284: the unseen counter is nested in "if is_match == 'yes'"
CountUnseen(count, v, is_match, seen) == CountIf(count, v, is_match /\ ~seen)

(***************************************************************************)
(* Inputs.  The trees on disk are a healthy installation with at most      *)
(* MaxDeviations departures from it: a departure replaces the run data of  *)
(* one (variant, formula), removes a run's summary table, or replaces the  *)
(* archive, the metadata table, the energy table or the row order of the   *)
(* summary tables by one of the alternatives below.                        *)
(***************************************************************************)
MaxDeviations == 2

GenText == "generated cif"
TrueText(f) == IF f = Li2O THEN "true cif of Li2O" ELSE IF f = LiF THEN "true cif of LiF" ELSE "true cif of NaCl"

Csv(rs) == [exists |-> TRUE, rows |-> rs]
NoFile == [exists |-> FALSE, rows |-> <<>>]
Files(g) == [c \in CandNames |-> IF c \in DOMAIN g THEN g[c] ELSE Absent]
NoFiles == [c \in CandNames |-> Absent]
OneCand == Csv(<< <<1, 1, 3>> >>)

\* the run data of one (variant, formula): its summary row and its directory
Healthy == [row |-> <<50, 3, 2>>, cand |-> OneCand, files |-> Files([x \in {1} |-> GenText])]
NoRow == <<>>

SiteAlternatives ==
    { \* absent from the run: no summary row, no directory
      [row |-> NoRow, cand |-> NoFile, files |-> NoFiles],
      \* no valid candidate reported, directory present
      [row |-> <<0, NaN, NaN>>, cand |-> OneCand, files |-> Files([x \in {1} |-> GenText])],
      \* valid candidates reported, directory missing
      [row |-> <<50, 3, 2>>, cand |-> NoFile, files |-> NoFiles],
      \* nothing valid, candidate table with its header only
      [row |-> <<0, NaN, NaN>>, cand |-> Csv(<<>>), files |-> NoFiles],
      \* two candidates, the second one better and found on iteration 1
      [row |-> <<50, 4, 3>>, cand |-> Csv(<< <<1, 2, 5>>, <<2, 1, 3>> >>),
       files |-> Files([x \in {1, 2} |-> IF x = 1 THEN "other cif" ELSE GenText])],
      \* the best candidate's file is missing
      [row |-> <<50, 3, 2>>, cand |-> OneCand, files |-> NoFiles],
      \* the best candidate's file does not parse
      [row |-> <<50, 3, 2>>, cand |-> OneCand, files |-> Files([x \in {1} |-> Garbage])] }

Sites == Variants \X AllFormulas

StructEntry(f, text) == [n |-> 3, formula |-> f, fname |-> "pymatgen.cif", text |-> text, rows |-> <<>>]
OtherEntry(n, f, fname) == [n |-> n, formula |-> f, fname |-> fname, text |-> "", rows |-> <<>>]
MetaEntry(rs) == [n |-> 2, formula |-> <<>>, fname |-> "metadata.csv", text |-> "", rows |-> rs]

BaseStructures == << StructEntry(NaCl, TrueText(NaCl)), StructEntry(Li2O, TrueText(Li2O)) >>
StructureAlternatives ==
    { << StructEntry(Li2O, TrueText(Li2O)), StructEntry(NaCl, TrueText(NaCl)) >>,
      << StructEntry(LiF, TrueText(LiF)), StructEntry(Li2O, TrueText(Li2O)) >>,
      << StructEntry(NaCl, TrueText(NaCl)) >>,
      << >>,
      \* a directory entry, a file that is not the canonical structure, a short path
      << OtherEntry(3, NaCl, ""), [StructEntry(NaCl, TrueText(NaCl)) EXCEPT !.fname = "NaCl_pymatgen.cif"],
         OtherEntry(3, Li2O, "README.txt"), OtherEntry(2, Li2O, "pymatgen.cif") >>,
      \* two canonical structure files for one formula
      << StructEntry(LiF, TrueText(NaCl)), StructEntry(Li2O, TrueText(Li2O)),
         StructEntry(LiF, TrueText(LiF)) >>,
      \* a ground-truth structure that does not parse
      << StructEntry(NaCl, TrueText(NaCl)), StructEntry(Li2O, Garbage) >> }

BaseMeta == << <<Li2O, "training set">>, <<NaCl, "challenge set">> >>
MetaAlternatives ==
    { << >>,
      << <<NaCl, "training set">>, <<LiF, "training set">>, <<Li2O, "challenge set">> >> }

BaseEnergies == << <<Li2O, 7>>, <<LiF, 8>>, <<NaCl, 9>> >>
EnergyAlternatives ==
    { << <<Li2O, 7>>, <<LiF, 8>> >>,
      << <<NaCl, 9>>, <<NaCl, 6>> >> }

\* the summary table of a run: one row per formula that has one, in the order fs
RECURSIVE SummaryRows(_, _)
SummaryRows(site, fs) ==
    IF fs = <<>> THEN <<>>
    ELSE (IF site[Head(fs)].row = NoRow THEN <<>>
          ELSE << <<Head(fs)>> \o site[Head(fs)].row >>) \o SummaryRows(site, Tail(fs))

Tree(site, fs, has_summary) ==
    [summary |-> IF has_summary THEN Csv(SummaryRows(site, fs)) ELSE NoFile,
     cand |-> [f \in AllFormulas |-> site[f].cand],
     files |-> [f \in AllFormulas |-> site[f].files]]

AscendingRows == <<Li2O, LiF, NaCl>>
DescendingRows == <<NaCl, LiF, Li2O>>

Blank == [true_cif |-> None, alignn_E |-> NaN, validity_rate |-> 0, min_E |-> NaN,
          mean_E |-> NaN, best_cif |-> None, valid_on_first |-> FALSE,
          is_match |-> FALSE, seen |-> FALSE]
Zero2 == [v \in Variants |-> 0]

\* nothing has run yet
Fresh ==
    /\ exc = NoExc
    /\ challenge_set = EmptyDict
    /\ training_set_formulas = {}
    /\ alignn_energies = EmptyDict
    /\ order = <<>>
    /\ i = 1
    /\ cur = Blank
    /\ validity_count = Zero2
    /\ valid_on_first_count = Zero2
    /\ match_true_count_all = Zero2
    /\ match_true_count_unseen = Zero2
    /\ rows = <<>>
    /\ out_dirs = {}
    /\ out_files = {}

Init ==
    /\ \E structs \in {BaseStructures} \cup StructureAlternatives,
          meta \in {BaseMeta} \cup MetaAlternatives,
          energies \in {BaseEnergies} \cup EnergyAlternatives,
          fs \in {AscendingRows, DescendingRows},
          nosummary \in SUBSET Variants,
          D \in SUBSET Sites :
          /\ (IF structs = BaseStructures THEN 0 ELSE 1) + (IF meta = BaseMeta THEN 0 ELSE 1)
               + (IF energies = BaseEnergies THEN 0 ELSE 1) + (IF fs = AscendingRows THEN 0 ELSE 1)
               + Cardinality(nosummary) + Cardinality(D) <= MaxDeviations
          /\ \E g \in [D -> SiteAlternatives] :
               /\ archive = <<MetaEntry(meta)>> \o structs
               /\ energies_csv = energies
               /\ run = [v \in Variants |->
                           Tree([f \in AllFormulas |-> IF <<v, f>> \in D THEN g[<<v, f>>] ELSE Healthy],
                                fs, v \notin nosummary)]
    /\ pc = "start"
    /\ Fresh

(***************************************************************************)
(* __main__                                                                *)
(***************************************************************************)
\* an unhandled exception ends the run where it is: pc stays, exc is set
Raise(e) == pc' = pc /\ exc' = e

counters == <<validity_count, valid_on_first_count, match_true_count_all, match_true_count_unseen>>

\* lines 209-244: read the energy table and the archive, reset out_dir,
\* zero the counters, start the loop over sorted(challenge_set)
Load ==
    /\ pc = "start"
    /\ exc = NoExc
    /\ LET cs == read_challenge_set(archive) IN
       /\ alignn_energies' = read_alignn_energies(energies_csv)
       /\ challenge_set' = cs.challenge_set
       /\ training_set_formulas' = cs.training_set_formulas
       /\ order' = sorted(cs.challenge_set, cs.inserted)
    /\ out_dirs' = {Root}
    /\ out_files' = {}
    /\ i' = 1
    /\ pc' = "loop"
    /\ UNCHANGED <<inputs, exc, cur, counters, rows>>

\* lines 244-252: the next formula: its directory, its true cif and energy,
\* true.cif and true_envs.txt
StartFormula ==
    /\ pc = "loop"
    /\ exc = NoExc
    /\ i <= Len(order)
    /\ LET formula == order[i]
           true_cif == challenge_set[formula]
           e == EnergyLookup(alignn_energies, formula)
       IN /\ out_dirs' = out_dirs \cup {formula}
          /\ IF e.exc # NoExc
             THEN Raise(e.exc) /\ UNCHANGED <<out_files, cur>>
             ELSE IF ~ParseOk(true_cif)
             THEN /\ Raise(Exc("ParseError", "analyze_local_environments"))
                  /\ out_files' = out_files \cup {<<formula, "true.cif">>}
                  /\ UNCHANGED cur
             ELSE /\ out_files' = out_files \cup {<<formula, "true.cif">>, <<formula, "true_envs.txt">>}
                  /\ cur' = [Blank EXCEPT !.true_cif = true_cif, !.alignn_E = e.val]
                  /\ pc' = "read0"
                  /\ UNCHANGED exc
    /\ UNCHANGED <<inputs, challenge_set, training_set_formulas, alignn_energies, order, i,
                   counters, rows>>

ReadPc(v) == IF v = 0 THEN "read0" ELSE "read1"
RecordPc(v) == IF v = 0 THEN "record0" ELSE "record1"
BestName(v) == IF v = 0 THEN "best_gen_no_spacegroup" ELSE "best_gen_with_spacegroup"

\* lines 254-257 (v = 0) and 286-288 (v = 1): read_props, is_valid_on_first,
\* matches_true; seen is set in the first block only
ReadRun(v) ==
    /\ pc = ReadPc(v)
    /\ exc = NoExc
    /\ LET formula == order[i]
           p == read_props(run[v], formula)
           vof == is_valid_on_first(run[v], formula)
       IN IF p.exc # NoExc THEN Raise(p.exc) /\ UNCHANGED cur
          ELSE IF vof.exc # NoExc THEN Raise(vof.exc) /\ UNCHANGED cur
          ELSE \E fit \in FitOutcomes :
                 LET m == matches_true(cur.true_cif, p.val.best_cif, fit) IN
                 IF m.exc # NoExc THEN Raise(m.exc) /\ UNCHANGED cur
                 ELSE /\ cur' = [cur EXCEPT !.validity_rate = p.val.validity_rate,
                                            !.min_E = p.val.min_E,
                                            !.mean_E = p.val.mean_E,
                                            !.best_cif = p.val.best_cif,
                                            !.valid_on_first = vof.val,
                                            !.is_match = m.val,
                                            !.seen = IF v = 0 THEN formula \in training_set_formulas
                                                     ELSE @]
                      /\ pc' = RecordPc(v)
                      /\ UNCHANGED exc
    /\ UNCHANGED <<inputs, challenge_set, training_set_formulas, alignn_energies, order, i,
                   counters, rows, out_dirs, out_files>>

\* lines 261-284 (v = 0) and 292-317 (v = 1): the best candidate's files,
\* the row, the four counters
Record(v) ==
    /\ pc = RecordPc(v)
    /\ exc = NoExc
    /\ LET formula == order[i] IN
       /\ out_files' = IF cur.best_cif # None
                       THEN out_files \cup {<<formula, BestName(v) \o ".cif">>,
                                            <<formula, BestName(v) \o "_envs.txt">>}
                       ELSE out_files
       /\ rows' = Append(rows,
                    [formula |-> formula,
                     seen_in_training |-> formula \in training_set_formulas,
                     true_E |-> cur.alignn_E,
                     includes_space_group |-> IF v = 0 THEN "no" ELSE "yes",
                     mean_E |-> cur.mean_E,
                     min_E |-> cur.min_E,
                     pct_valid |-> cur.validity_rate,
                     valid_on_first |-> IF cur.valid_on_first THEN "yes" ELSE "no",
                     matches_true |-> IF cur.is_match THEN "yes" ELSE "no"])
    /\ validity_count' = CountIf(validity_count, v, FloatLT(0, cur.validity_rate))
    /\ valid_on_first_count' = CountIf(valid_on_first_count, v, cur.valid_on_first)
    /\ match_true_count_all' = CountIf(match_true_count_all, v, cur.is_match)
    /\ match_true_count_unseen' = CountUnseen(match_true_count_unseen, v, cur.is_match, cur.seen)
    /\ IF v = 0 THEN pc' = "read1" /\ i' = i ELSE pc' = "loop" /\ i' = i + 1
    /\ UNCHANGED <<inputs, exc, challenge_set, training_set_formulas, alignn_energies, order,
                   cur, out_dirs>>

\* lines 319-332: the summary and out_dir/results.csv
Finish ==
    /\ pc = "loop"
    /\ exc = NoExc
    /\ i > Len(order)
    /\ out_files' = out_files \cup {<<Root, "results.csv">>}
    /\ pc' = "done"
    /\ UNCHANGED <<inputs, exc, challenge_set, training_set_formulas, alignn_energies, order,
                   i, cur, counters, rows, out_dirs>>

Next ==
    \/ Load
    \/ StartFormula
    \/ ReadRun(0)
    \/ Record(0)
    \/ ReadRun(1)
    \/ Record(1)
    \/ Finish

Spec == Init /\ [][Next]_vars

(***************************************************************************)
(* The two table readers on their own: get_best_cif and is_valid_on_first  *)
(* called once on the directory of one formula, whose candidate table is   *)
(* any table of at most MaxCandRows rows (row k names file k), with any    *)
(* subset of the candidate files on disk.                                  *)
(***************************************************************************)
MaxScore == 2
Scores == (1..MaxScore) \cup {NaN, Inf}
Iterations == {1, 2}
CifText(k) == "cif " \o ToString(k)

TablesOfLen(n) ==
    {[k \in 1..n |-> <<k, p[k][1], p[k][2]>>] : p \in [1..n -> Iterations \X Scores]}

DirTree(cand, present) ==
    [summary |-> Csv(<< <<Li2O, 50, 3, 2>> >>),
     cand |-> [f \in AllFormulas |-> IF f = Li2O THEN cand ELSE NoFile],
     files |-> [f \in AllFormulas |->
                  [c \in CandNames |-> IF f = Li2O /\ c \in present THEN CifText(c) ELSE Absent]]]

InitTables ==
    /\ \E n \in 0..MaxCandRows, present \in SUBSET CandNames, exists \in BOOLEAN :
         \E t \in TablesOfLen(n) :
            /\ exists \/ (n = 0 /\ present = {})
            /\ run = [v \in Variants |-> DirTree(IF exists THEN Csv(t) ELSE NoFile, present)]
    /\ archive = <<>>
    /\ energies_csv = <<>>
    /\ pc = "call"
    /\ Fresh

\* best_cif = get_best_cif(challenge_path, formula)
CallGetBestCif ==
    /\ pc = "call"
    /\ LET r == get_best_cif(run[0], Li2O) IN
       /\ exc' = r.exc
       /\ cur' = [cur EXCEPT !.best_cif = r.val]
    /\ pc' = "get_best_cif returned"
    /\ UNCHANGED <<inputs, challenge_set, training_set_formulas, alignn_energies, order, i,
                   counters, rows, out_dirs, out_files>>

\* is_valid_on_first(formula_dir)
CallIsValidOnFirst ==
    /\ pc = "call"
    /\ LET r == is_valid_on_first(run[0], Li2O) IN
       /\ exc' = r.exc
       /\ cur' = [cur EXCEPT !.valid_on_first = r.val]
    /\ pc' = "is_valid_on_first returned"
    /\ UNCHANGED <<inputs, challenge_set, training_set_formulas, alignn_energies, order, i,
                   counters, rows, out_dirs, out_files>>

NextTables ==
    \/ CallGetBestCif
    \/ CallIsValidOnFirst

SpecTables == InitTables /\ [][NextTables]_vars

(***************************************************************************)
(* Properties                                                              *)
(***************************************************************************)
Label(v) == IF v = 0 THEN "no" ELSE "yes"
RowIndices == 1..Len(rows)
\* the formulas that have a canonical structure file in the archive
ChallengeKeys == {archive[k].formula : k \in {j \in 1..Len(archive) :
                     archive[j].n >= 3 /\ CanonicalSuffix(archive[j].fname)}}
SummaryFormulas(v) == {run[v].summary.rows[k][1] : k \in 1..Len(run[v].summary.rows)}

\* some part of variant v's run data for formula f is not on disk: its directory
\* (with the candidate table), its summary row, or a candidate file
MissingRunData(v, f) ==
    \/ ~run[v].cand[f].exists
    \/ f \notin SummaryFormulas(v)
    \/ \E k \in 1..Len(run[v].cand[f].rows) : run[v].files[f][run[v].cand[f].rows[k][1]] = Absent

\* C1: whenever part of variant v's run data for the formula being processed
\* is missing, reading the run does not fail, and it yields validity_rate = 0,
\* NaN energies, no best candidate and FirstAttemptValidity = false.
C1_MissingRunDataDegrades ==
    \A v \in Variants :
        (pc \in {ReadPc(v), RecordPc(v)} /\ run[v].summary.exists /\ MissingRunData(v, order[i])) =>
            /\ exc = NoExc
            /\ pc = RecordPc(v) =>
                 /\ cur.validity_rate = 0 /\ cur.mean_E = NaN /\ cur.min_E = NaN
                 /\ cur.best_cif = None /\ ~cur.valid_on_first

\* C2: a validity_rate of 0 leaves no best candidate; with no best candidate
\* matches_true is false whatever the matcher would say; and every emitted
\* row with matches_true = "yes" has validity_rate > 0.
C2_NoCandidateNoMatch ==
    /\ \A v \in Variants :
          pc = RecordPc(v) =>
             /\ cur.validity_rate = 0 => cur.best_cif = None
             /\ cur.best_cif = None =>
                  /\ ~cur.is_match
                  /\ \A fit \in FitOutcomes :
                        matches_true(cur.true_cif, cur.best_cif, fit) = [exc |-> NoExc, val |-> FALSE]
    /\ \A k \in RowIndices : rows[k].matches_true = "yes" => FloatLT(0, rows[k].pct_valid)

C2_Witness ==
    \E k, m \in RowIndices :
        /\ rows[k].pct_valid = 0 /\ rows[k].matches_true = "no"
        /\ run[IF rows[k].includes_space_group = "no" THEN 0 ELSE 1].cand[rows[k].formula].exists
        /\ rows[m].matches_true = "yes"

\* the first row of tbl whose score is not above any other row's score
IsFirstMinimum(tbl, k) ==
    /\ tbl[k][3] # NaN
    /\ \A j \in 1..Len(tbl) : ~FloatLT(tbl[j][3], tbl[k][3])
    /\ \A j \in 1..(k - 1) : tbl[j][3] # tbl[k][3]

\* C3: get_best_cif returns the content of the file named by the row of
\* minimum score, the first such row in table order; it returns whenever the
\* table has such a row below Inf whose file is on disk.
C3_BestIsFirstMinimum ==
    LET tbl == run[0].cand[Li2O].rows IN
    pc = "get_best_cif returned" =>
       /\ exc = NoExc =>
            \E k \in 1..Len(tbl) :
                IsFirstMinimum(tbl, k) /\ cur.best_cif = run[0].files[Li2O][tbl[k][1]]
       /\ \A k \in 1..Len(tbl) :
            (/\ run[0].cand[Li2O].exists
             /\ IsFirstMinimum(tbl, k)
             /\ tbl[k][3] # Inf
             /\ run[0].files[Li2O][tbl[k][1]] # Absent) => exc = NoExc

C3_Witness ==
    LET tbl == run[0].cand[Li2O].rows IN
    /\ pc = "get_best_cif returned" /\ exc = NoExc
    /\ Len(tbl) = 3
    /\ tbl[1][3] = 2 /\ tbl[2][3] = 1 /\ tbl[3][3] = 1
    /\ cur.best_cif = CifText(2)

\* C4: is_valid_on_first never raises, and it is true exactly when the
\* candidate table exists and its first data row has iteration index 1.
C4_FirstRowDecidesNeverRaises ==
    LET c == run[0].cand[Li2O] IN
    pc = "is_valid_on_first returned" =>
       /\ exc = NoExc
       /\ cur.valid_on_first <=> (c.exists /\ Len(c.rows) >= 1 /\ c.rows[1][2] = 1)

\* C5: no exception propagates out of matches_true.
C5_MatchFailuresAbsorbed == exc.in # "matches_true"

\* C6: in every state, for both slots, the unseen match counter is at most
\* the overall match counter.
C6_UnseenAtMostAll ==
    \A v \in Variants : match_true_count_unseen[v] <= match_true_count_all[v]

C6_Witness ==
    \E v \in Variants : 0 < match_true_count_unseen[v]
                        /\ match_true_count_unseen[v] < match_true_count_all[v]

MatchRows(v) == {k \in RowIndices : rows[k].includes_space_group = Label(v)
                                     /\ rows[k].matches_true = "yes"}

Tallies ==
    \A v \in Variants :
       /\ validity_count[v] =
             Cardinality({f \in ChallengeKeys : FloatLT(0, read_props(run[v], f).val.validity_rate)})
       /\ valid_on_first_count[v] =
             Cardinality({f \in ChallengeKeys : is_valid_on_first(run[v], f).val})
       /\ match_true_count_all[v] = Cardinality(MatchRows(v))
       /\ match_true_count_unseen[v] =
             Cardinality({k \in MatchRows(v) : rows[k].formula \notin ZipTraining(archive)})

GrowsByOneInOwnBlock(count) ==
    \A v \in Variants :
       /\ count'[v] \in {count[v], count[v] + 1}
       /\ count'[v] # count[v] => pc = RecordPc(v) /\ pc' # pc

\* C7: after a completed run each counter slot is the tally of its own
\* variant's results over the challenge formulas, and in every step a counter
\* slot stays or grows by one, growing only in its own variant's block.
C7_CountersAreTallies ==
    /\ [](pc = "done" => Tallies)
    /\ [][/\ GrowsByOneInOwnBlock(validity_count)
          /\ GrowsByOneInOwnBlock(valid_on_first_count)
          /\ GrowsByOneInOwnBlock(match_true_count_all)
          /\ GrowsByOneInOwnBlock(match_true_count_unseen)]_vars

C7_Witness ==
    /\ pc = "done"
    /\ validity_count[0] = 2 /\ validity_count[1] = 1
    /\ valid_on_first_count[0] = 2 /\ valid_on_first_count[1] = 1
    /\ match_true_count_all[0] = 2 /\ match_true_count_all[1] = 0
    /\ match_true_count_unseen[0] = 1

\* C8: the consolidated table has exactly two rows per challenge formula,
\* "no" then "yes", formulas strictly ascending: the row sequence is fixed by
\* the set of challenge formulas alone.
C8_RowSequenceIsSorted ==
    pc = "done" =>
       /\ <<Root, "results.csv">> \in out_files
       /\ Len(rows) = 2 * Cardinality(ChallengeKeys)
       /\ {rows[k].formula : k \in RowIndices} = ChallengeKeys
       /\ \A k \in RowIndices :
             /\ k % 2 = 1 => rows[k].includes_space_group = "no"
                             /\ rows[k + 1].formula = rows[k].formula
             /\ k % 2 = 0 => rows[k].includes_space_group = "yes"
             /\ k + 2 <= Len(rows) /\ k % 2 = 1 => StrLT(rows[k].formula, rows[k + 2].formula)

C8_Witness ==
    /\ pc = "done"
    /\ Len(rows) = 4
    /\ archive[2].formula = NaCl /\ archive[3].formula = Li2O
    /\ run[0].summary.rows[1][1] = NaCl

\* the run tree without the summary rows of the formulas outside S
Restrict(tree, S) ==
    [tree EXCEPT !.summary.rows = SelectSeq(@, LAMBDA r : r[1] \in S)]

\* C9: run data of a formula outside the ChallengeSet never makes the run
\* fail: a read that fails also fails without the rows of those formulas.
C9_ForeignFormulaChangesNothing ==
    \A v \in Variants :
        (pc = ReadPc(v) /\ exc # NoExc /\ exc.in \in {"get_best_cif", "read_results_csv"}) =>
            read_props(Restrict(run[v], ChallengeKeys), order[i]).exc # NoExc

Processing == {"read0", "record0", "read1", "record1"}

\* C10: the loop never gets past a formula without a reference energy: the
\* step that reaches it raises KeyError after making its directory, the
\* directories of the formulas before it are on disk, and the root-level
\* results.csv is written only by a run that processed every formula.
C10_MissingEnergyStopsTheRun ==
    /\ [](/\ pc \in Processing => order[i] \in DOMAIN alignn_energies
          /\ exc.type = "KeyError" =>
                /\ pc = "loop" /\ order[i] \notin DOMAIN alignn_energies
                /\ \A k \in 1..(i - 1) : order[k] \in out_dirs
                                         /\ <<order[k], "true.cif">> \in out_files
                /\ Len(rows) = 2 * (i - 1)
          /\ <<Root, "results.csv">> \in out_files =>
                /\ pc = "done" /\ exc = NoExc
                /\ ChallengeKeys \subseteq DOMAIN alignn_energies
                /\ Len(rows) = 2 * Cardinality(ChallengeKeys))
    /\ [][(pc = "loop" /\ exc = NoExc /\ i <= Len(order)
           /\ order[i] \notin DOMAIN alignn_energies)
          => (exc' = Exc("KeyError", "__main__") /\ pc' = "loop" /\ i' = i
              /\ out_files' = out_files)]_vars

C10_Witness ==
    /\ exc.type = "KeyError"
    /\ i = 2
    /\ order[1] \in out_dirs
    /\ Len(rows) = 2

====
